---- MODULE Spec2Model ----
(***************************************************************************)
(* Model of the multi-agent workflow orchestrator of                       *)
(* backend/app/agents/orchestrator.py: AgentOrchestrator.run_workflow, the *)
(* five agent stages it threads an AgentState through, and the             *)
(* approve_action / reject_action / get_workflow_status operations.        *)
(*                                                                         *)
(* Scheduling is the asyncio event loop: one task runs at a time and a     *)
(* task gives up the loop only at an await that really suspends.  Inside   *)
(* run_workflow the only such await is the HTTP call of                    *)
(* OllamaClient.generate; `cpu' names the run that holds the loop.         *)
(*                                                                         *)
(* Optional[...] fields are sequences of length 0 (None) or 1.             *)
(***************************************************************************)
EXTENDS Integers, Sequences, FiniteSets, TLC

\* ---------------------------------------------------------------- bounds
\* workflow ids handed out by uuid4 in this model, and an id never handed out
WorkflowIds == {1, 2}
\* the run_workflow calls made under Spec
RunIds == {1}
\* ids a caller may pass: 0 is never handed out
AllIds == WorkflowIds \cup {0}
\* largest number of documents the retriever returns (top_k caps it at 3)
MaxSources == 1
\* largest number of steps in a JSON object the LLM returns
MaxSteps == 2
\* reasons passed to reject_action
Reasons == {"not needed"}
\* target_role arguments of run_workflow
TargetRoles == {"nurse"}

\* ------------------------------------------------------------- constants
\* AgentState.max_iterations default
MaxIterations == 3

Agents == {"monitor", "retrieval", "planning", "guardrail", "notifier"}
Statuses == {"pending", "running", "awaiting_approval", "approved",
             "rejected", "completed", "failed"}
Urgencies == {"critical", "high", "medium"}
Missing == "<missing>"

\* ------------------------------------------------------------- variables
VARIABLES
    wf,                \* workflow id -> AgentState
    active_workflows,  \* ids registered in AgentOrchestrator.active_workflows
    pc,                \* position of each run_workflow call
    cpu,               \* run holding the event loop, 0 when the loop is free
    exc,               \* exception text propagating to the handler of a run
    calls,             \* how often each stage was entered, per run
    metrics,           \* metrics passed to EvaluationService.log_metric, per run
    save_calls,        \* invocations of _save_workflow_to_db, per run
    db,                \* rows of the "workflows" table, per workflow id
    supabase,          \* whether get_supabase_client() gave a client
    target_role,       \* the target_role argument of each run_workflow call
    api                \* the last approve/reject/status call and its result

vars == <<wf, active_workflows, pc, cpu, exc, calls, metrics, save_calls, db,
          supabase, target_role, api>>

\* ------------------------------------------------------------ AgentState
AgentState ==
    [status |-> "pending", current_agent |-> "none", iteration |-> 0,
     max_iterations |-> MaxIterations,
     risk_event |-> <<>>, forecast_data |-> <<>>,
     retrieved_context |-> <<>>, retrieved_sources |-> <<>>,
     proposed_action |-> <<>>,
     validation_passed |-> FALSE, validation_errors |-> <<>>,
     final_output |-> <<>>, agent_history |-> <<>>]

NoCall == [op |-> "none", id |-> 0, arg |-> "", ret |-> FALSE]

Init ==
    /\ wf = [w \in WorkflowIds |-> AgentState]
    /\ active_workflows = {}
    /\ pc = [w \in WorkflowIds |-> "idle"]
    /\ cpu = 0
    /\ exc = [w \in WorkflowIds |-> "none"]
    /\ calls = [w \in WorkflowIds |-> [a \in Agents |-> 0]]
    /\ metrics = [w \in WorkflowIds |-> <<>>]
    /\ save_calls = [w \in WorkflowIds |-> 0]
    /\ db = [w \in WorkflowIds |-> <<>>]
    /\ supabase \in BOOLEAN
    /\ target_role = [w \in WorkflowIds |-> "nurse"]
    /\ api = NoCall

\* -------------------------------------------------------- run_workflow
\* variant of the start that makes a new registry holding the new run alone
RunWorkflowStartNewRegistry(w, role) ==
    /\ cpu = 0
    /\ pc[w] = "idle"
    /\ \A v \in WorkflowIds : v < w => pc[v] # "idle"
    /\ wf' = [wf EXCEPT ![w] = [AgentState EXCEPT !.status = "running"]]
    /\ active_workflows' = {w}
    /\ pc' = [pc EXCEPT ![w] = "monitor"]
    /\ cpu' = w
    /\ target_role' = [target_role EXCEPT ![w] = role]
    /\ api' = NoCall
    /\ UNCHANGED <<exc, calls, metrics, save_calls, db, supabase>>

\* lines 617-622: the state is built (status pending), set running, registered.
\* uuid4 ids are fresh: ids are handed out in increasing order.
RunWorkflowStart(w, role) ==
    /\ cpu = 0
    /\ pc[w] = "idle"
    /\ \A v \in WorkflowIds : v < w => pc[v] # "idle"
    /\ wf' = [wf EXCEPT ![w] = [AgentState EXCEPT !.status = "running"]]
    /\ active_workflows' = active_workflows \cup {w}
    /\ pc' = [pc EXCEPT ![w] = "monitor"]
    /\ cpu' = w
    /\ target_role' = [target_role EXCEPT ![w] = role]
    /\ api' = NoCall
    /\ UNCHANGED <<exc, calls, metrics, save_calls, db, supabase>>

\* ---------------------------------------------------------- helpers
Entry(agent, detail) == [agent |-> agent, detail |-> detail]

Output(kind, message, errors, card, role) ==
    <<[kind |-> kind, message |-> message, errors |-> errors,
       action_card |-> card, role |-> role]>>

Enter(w, agent) == [calls EXCEPT ![w][agent] = @ + 1]

\* a stage raised: control leaves the try body for the handler of line 682
Raise(w, text) ==
    /\ exc' = [exc EXCEPT ![w] = text]
    /\ pc' = [pc EXCEPT ![w] = "except"]

\* ---------------------------------------------------------- MonitorAgent
RiskEvent(type, severity) == [event_type |-> type, severity |-> severity]

\* what check_thresholds and the patient score loop can put in `events'
DetectedEvents ==
    { <<>>,
      <<RiskEvent("icu_occupancy_critical", "critical")>>,
      <<RiskEvent("patient_escalation", "high")>> }

\* the forecaster, replay engine and risk models return, or one of them raises
MonitorOutcomes ==
    {[raised |-> TRUE, events |-> <<>>]}
    \cup {[raised |-> FALSE, events |-> e] : e \in DetectedEvents}

DemoEvent == RiskEvent("icu_capacity_warning", "high")

\* variant without demo mode
InjectDemoNone(events) == events

\* lines 196-209: demo mode
InjectDemo(events) == IF events = <<>> THEN <<DemoEvent>> ELSE events

\* MonitorAgent.run followed by lines 627-635 of run_workflow
MonitorRun(w, outcome) ==
    /\ cpu = w
    /\ pc[w] = "monitor"
    /\ calls' = Enter(w, "monitor")
    /\ IF outcome.raised
       THEN /\ wf' = [wf EXCEPT ![w].current_agent = "monitor"]
            /\ Raise(w, "monitor failed")
            /\ UNCHANGED cpu
       ELSE LET events == InjectDemo(outcome.events)
                s1 == [wf[w] EXCEPT !.current_agent = "monitor"]
                s2 == IF events # <<>>
                      THEN [s1 EXCEPT
                              !.risk_event = <<events[1]>>,
                              !.forecast_data =
                                 <<[events_detected |-> Len(events),
                                    primary_event |-> events[1].event_type,
                                    severity |-> events[1].severity]>>]
                      ELSE s1
                s3 == [s2 EXCEPT !.agent_history =
                          Append(@, Entry("monitor", Len(events)))]
            IN  IF s3.risk_event = <<>>
                THEN /\ wf' = [wf EXCEPT ![w] =
                          [s3 EXCEPT
                             !.status = "completed",
                             !.final_output =
                                Output("message", "No risk events detected",
                                       <<>>, <<>>, "")]]
                     /\ pc' = [pc EXCEPT ![w] = "done"]
                     /\ cpu' = 0
                     /\ UNCHANGED exc
                ELSE /\ wf' = [wf EXCEPT ![w] = s3]
                     /\ pc' = [pc EXCEPT ![w] = "retrieval"]
                     /\ UNCHANGED <<cpu, exc>>
    /\ api' = NoCall
    /\ UNCHANGED <<active_workflows, metrics, save_calls, db, supabase, target_role>>

\* -------------------------------------------------------- RetrievalAgent
\* contexts RAGEngine.get_context_for_agent can build: the empty join of no
\* results, an SOP text naming the ICU and its capacity, any other SOP text
Contexts == {"", "ICU capacity SOP", "general SOP"}

Sources(n) == [i \in 1..n |-> [doc_id |-> i]]

\* results of get_context_for_agent: context and sources are built in the same
\* loop (lines 584-594 of rag_engine.py), so one is empty iff the other is, and
\* has_sufficient_context is any(...) over the results
RetrievalResults ==
    { r \in [context : Contexts, sources : {Sources(n) : n \in 0..MaxSources},
             has_sufficient_context : BOOLEAN] :
        /\ (r.context = "") <=> (r.sources = <<>>)
        /\ r.sources = <<>> => ~r.has_sufficient_context }

\* get_context_for_agent returns, or the RAG engine raises
RetrievalOutcomes ==
    {[raised |-> TRUE, result |-> [context |-> "", sources |-> <<>>,
                                   has_sufficient_context |-> FALSE]]}
    \cup {[raised |-> FALSE, result |-> r] : r \in RetrievalResults}

Metric(category, name, value) ==
    [category |-> category, name |-> name, value |-> value]

\* line 645; a non-empty context never contains the words "No risk event"
RagSuccess(s) ==
    IF s.retrieved_context # <<>> /\ s.retrieved_context[1] # ""
          /\ s.retrieved_context[1] # "No risk event to retrieve context for."
    THEN 1 ELSE 0

\* lines 259-260: what the history entry of the retrieval says
RetrievalDetail(result) ==
    [sources_found |-> Len(result.sources),
     has_sufficient_context |-> result.has_sufficient_context]

\* variant of retrieval that searches again when nothing was found
RetrievalRunRetries(w, outcome) ==
    /\ cpu = w
    /\ pc[w] = "retrieval"
    /\ calls' = Enter(w, "retrieval")
    /\ LET s1 == [wf[w] EXCEPT !.current_agent = "retrieval"]
       IN  IF outcome.raised
           THEN /\ wf' = [wf EXCEPT ![w] = s1]
                /\ Raise(w, "retrieval failed")
                /\ UNCHANGED metrics
           ELSE LET result == outcome.result
                    s2 == [s1 EXCEPT
                             !.retrieved_context = <<result.context>>,
                             !.retrieved_sources = <<result.sources>>,
                             !.agent_history =
                                 IF calls[w]["retrieval"] = 0
                                 THEN Append(@, Entry("retrieval",
                                     RetrievalDetail(result)))
                                 ELSE @]
                IN  /\ wf' = [wf EXCEPT ![w] = s2]
                    /\ IF result.sources = <<>> /\ calls[w]["retrieval"] = 0
                       THEN /\ UNCHANGED <<metrics, pc>>
                       ELSE /\ metrics' = [metrics EXCEPT ![w] = Append(@,
                                  Metric("rag_quality", "context_retrieval",
                                         RagSuccess(s2)))]
                            /\ pc' = [pc EXCEPT ![w] = "loop"]
                    /\ UNCHANGED exc
    /\ api' = NoCall
    /\ UNCHANGED <<active_workflows, cpu, save_calls, db, supabase, target_role>>

\* RetrievalAgent.run followed by lines 639-646 of run_workflow
\* (a metric value 1 is 1.0, 0 is 0.0)
RetrievalRun(w, outcome) ==
    /\ cpu = w
    /\ pc[w] = "retrieval"
    /\ calls' = Enter(w, "retrieval")
    /\ LET s1 == [wf[w] EXCEPT !.current_agent = "retrieval"]
       IN  IF s1.risk_event = <<>>
           THEN LET s2 == [s1 EXCEPT !.retrieved_context =
                              <<"No risk event to retrieve context for.">>]
                IN  /\ wf' = [wf EXCEPT ![w] = s2]
                    /\ metrics' = [metrics EXCEPT ![w] = Append(@,
                          Metric("rag_quality", "context_retrieval", RagSuccess(s2)))]
                    /\ pc' = [pc EXCEPT ![w] = "loop"]
                    /\ UNCHANGED exc
           ELSE IF outcome.raised
           THEN /\ wf' = [wf EXCEPT ![w] = s1]
                /\ Raise(w, "retrieval failed")
                /\ UNCHANGED metrics
           ELSE LET result == outcome.result
                    s2 == [s1 EXCEPT
                             !.retrieved_context = <<result.context>>,
                             !.retrieved_sources = <<result.sources>>,
                             !.agent_history = Append(@,
                                 Entry("retrieval", RetrievalDetail(result)))]
                IN  /\ wf' = [wf EXCEPT ![w] = s2]
                    /\ metrics' = [metrics EXCEPT ![w] = Append(@,
                          Metric("rag_quality", "context_retrieval",
                                 RagSuccess(s2)))]
                    /\ pc' = [pc EXCEPT ![w] = "loop"]
                    /\ UNCHANGED exc
    /\ api' = NoCall
    /\ UNCHANGED <<active_workflows, cpu, save_calls, db, supabase, target_role>>

\* ---------------------------------------------------------- OllamaClient
StepList(n) == [i \in 1..n |-> "step"]

\* a decoded JSON object: the keys PlanningAgent.run reads, Missing when absent
JsonObject(action_type, urgency, rationale, has_steps, steps) ==
    [action_type |-> action_type, urgency |-> urgency, rationale |-> rationale,
     has_steps |-> has_steps, steps |-> steps]

EmptyObject == JsonObject(Missing, Missing, Missing, FALSE, <<>>)

\* the user prompt of lines 292-300 holds the event type and the context;
\* its fixed text has neither "ICU" nor "capacity"
PromptHasICU(s) ==
    s.retrieved_context # <<>> /\ s.retrieved_context[1] = "ICU capacity SOP"

PromptHasCapacity(s) ==
    \/ s.retrieved_context # <<>> /\ s.retrieved_context[1] = "ICU capacity SOP"
    \/ s.risk_event # <<>> /\ s.risk_event[1].event_type = "icu_capacity_warning"

\* variant of the fallback that answers a retry with the transfer plan
FallbackResponseEscalates(s) ==
    IF (PromptHasICU(s) /\ PromptHasCapacity(s)) \/ s.iteration > 1
    THEN JsonObject("transfer", "high",
                    "Based on ICU Capacity Management SOP", TRUE, StepList(3))
    ELSE JsonObject("alert", "medium",
                    "Standard response to detected risk event.", TRUE, StepList(2))

\* _fallback_response, decoded
FallbackResponse(s) ==
    IF PromptHasICU(s) /\ PromptHasCapacity(s)
    THEN JsonObject("transfer", "high",
                    "Based on ICU Capacity Management SOP", TRUE, StepList(3))
    ELSE JsonObject("alert", "medium",
                    "Standard response to detected risk event.", TRUE, StepList(2))

\* JSON objects the model may answer with
LLMObjects ==
    { JsonObject("alert", u, r, TRUE, StepList(n)) :
        u \in Urgencies, r \in {"", "per SOP"}, n \in 0..MaxSteps }
    \cup {EmptyObject}

\* texts: a JSON object (possibly inside prose), text that is not JSON, and
\* JSON without braces that is not an object (a number, null, a string, a list)
Text(kind, obj) == [kind |-> kind, obj |-> obj]

ModelTexts ==
    {Text("json_object", o) : o \in LLMObjects}
    \cup {Text("not_json", EmptyObject), Text("json_scalar", EmptyObject)}

\* what happens to the HTTP call of generate
LLMOutcomes ==
    {[http |-> "down", text |-> Text("not_json", EmptyObject)],
     [http |-> "500", text |-> Text("not_json", EmptyObject)]}
    \cup {[http |-> "200", text |-> t] : t \in ModelTexts}

\* OllamaClient.generate: the text it returns
Generate(outcome, s) ==
    IF outcome.http = "down" THEN Text("json_object", FallbackResponse(s))
    ELSE IF outcome.http = "500" THEN Text("not_json", EmptyObject)
    ELSE outcome.text

\* --------------------------------------------------------- PlanningAgent
\* lines 305-315: action_data, and whether it is a dict
ParseResponse(text, s) ==
    IF text.kind = "json_object" THEN [is_dict |-> TRUE, data |-> text.obj]
    ELSE IF text.kind = "not_json"
         THEN [is_dict |-> TRUE, data |-> FallbackResponse(s)]
         ELSE [is_dict |-> FALSE, data |-> EmptyObject]

Get(value, default) == IF value = Missing THEN default ELSE value

\* lines 317-357
BuildActionCard(data, s) ==
    [card_id |-> s.iteration,
     urgency |-> Get(data.urgency, "medium"),
     status |-> "pending",
     proposed_actions |->
        <<[action_type |-> Get(data.action_type, "alert"),
           rationale |-> Get(data.rationale, "Based on risk assessment"),
           steps |-> IF data.has_steps THEN data.steps ELSE StepList(2)]>>,
     cited_sources |->
        IF s.retrieved_sources # <<>> THEN s.retrieved_sources[1] ELSE <<>>]

\* variant of the loop whose test is iteration <= max_iterations
PlanningBeginOffByOne(w) ==
    /\ cpu = w
    /\ pc[w] = "loop"
    /\ IF wf[w].iteration <= wf[w].max_iterations
       THEN /\ wf' = [wf EXCEPT ![w].current_agent = "planning",
                                ![w].iteration = @ + 1]
            /\ calls' = Enter(w, "planning")
            /\ pc' = [pc EXCEPT ![w] = "llm_wait"]
            /\ cpu' = 0
       ELSE /\ pc' = [pc EXCEPT ![w] = "post_loop"]
            /\ UNCHANGED <<wf, calls, cpu>>
    /\ api' = NoCall
    /\ UNCHANGED <<active_workflows, exc, metrics, save_calls, db, supabase, target_role>>

\* variant of the loop that does not leave at the cap: with the attempts used
\* up and no pass it tests again, for ever
PlanningBeginSpins(w) ==
    /\ cpu = w
    /\ pc[w] = "loop"
    /\ IF wf[w].iteration < wf[w].max_iterations
       THEN /\ wf' = [wf EXCEPT ![w].current_agent = "planning",
                                ![w].iteration = @ + 1]
            /\ calls' = Enter(w, "planning")
            /\ pc' = [pc EXCEPT ![w] = "llm_wait"]
            /\ cpu' = 0
       ELSE UNCHANGED <<wf, calls, cpu, pc>>
    /\ api' = NoCall
    /\ UNCHANGED <<active_workflows, exc, metrics, save_calls, db, supabase, target_role>>

\* while-test of line 649, then PlanningAgent.run up to the await of line 303
PlanningBegin(w) ==
    /\ cpu = w
    /\ pc[w] = "loop"
    /\ IF wf[w].iteration < wf[w].max_iterations
       THEN /\ wf' = [wf EXCEPT ![w].current_agent = "planning",
                                ![w].iteration = @ + 1]
            /\ calls' = Enter(w, "planning")
            /\ pc' = [pc EXCEPT ![w] = "llm_wait"]
            /\ cpu' = 0
       ELSE /\ pc' = [pc EXCEPT ![w] = "post_loop"]
            /\ UNCHANGED <<wf, calls, cpu>>
    /\ api' = NoCall
    /\ UNCHANGED <<active_workflows, exc, metrics, save_calls, db, supabase, target_role>>

\* variant of planning that keeps one planning entry per run: a retry writes
\* over the entry of the attempt before
PlanningResumeRewritesEntry(w, outcome) ==
    /\ cpu = 0
    /\ pc[w] = "llm_wait"
    /\ cpu' = w
    /\ LET parsed == ParseResponse(Generate(outcome, wf[w]), wf[w])
       IN  IF ~parsed.is_dict
           THEN /\ Raise(w, "planning failed")
                /\ UNCHANGED wf
           ELSE LET card == BuildActionCard(parsed.data, wf[w])
                    h == wf[w].agent_history
                    old == {i \in DOMAIN h : h[i].agent = "planning"}
                IN  /\ wf' = [wf EXCEPT
                          ![w].proposed_action = <<card>>,
                          ![w].agent_history =
                              IF old = {}
                              THEN Append(h, Entry("planning", wf[w].iteration))
                              ELSE [i \in DOMAIN h |->
                                      IF i \in old
                                      THEN Entry("planning", wf[w].iteration)
                                      ELSE h[i]]]
                    /\ pc' = [pc EXCEPT ![w] = "guardrail"]
                    /\ UNCHANGED exc
    /\ api' = NoCall
    /\ UNCHANGED <<active_workflows, calls, metrics, save_calls, db, supabase, target_role>>

\* the HTTP call ends and PlanningAgent.run goes on to its return
PlanningResume(w, outcome) ==
    /\ cpu = 0
    /\ pc[w] = "llm_wait"
    /\ cpu' = w
    /\ LET parsed == ParseResponse(Generate(outcome, wf[w]), wf[w])
       IN  IF ~parsed.is_dict
           THEN \* action_data.get raises AttributeError at line 328
                /\ Raise(w, "planning failed")
                /\ UNCHANGED wf
           ELSE LET card == BuildActionCard(parsed.data, wf[w])
                IN  /\ wf' = [wf EXCEPT
                          ![w].proposed_action = <<card>>,
                          ![w].agent_history = Append(@,
                              Entry("planning", wf[w].iteration))]
                    /\ pc' = [pc EXCEPT ![w] = "guardrail"]
                    /\ UNCHANGED exc
    /\ api' = NoCall
    /\ UNCHANGED <<active_workflows, calls, metrics, save_calls, db, supabase, target_role>>

\* -------------------------------------------------------- GuardrailAgent
\* variant that stops at the first rule broken
ViolationsFirstOnly(action, risk_event) ==
    IF action.proposed_actions = <<>> \/ action.proposed_actions[1].rationale = ""
    THEN <<"Missing rationale for action">>
    ELSE IF risk_event # <<>> /\ risk_event[1].severity = "critical"
            /\ action.urgency \notin {"critical", "high"}
    THEN <<"Urgency does not match critical severity">>
    ELSE IF Len(action.proposed_actions[1].steps) < 2
    THEN <<"Insufficient action steps (need at least 2)">>
    ELSE IF action.urgency = "critical" /\ action.cited_sources = <<>>
    THEN <<"Critical actions require cited sources">>
    ELSE <<>>

\* lines 393-410: the violations, in rule order
Violations(action, risk_event) ==
    (IF action.proposed_actions = <<>> \/ action.proposed_actions[1].rationale = ""
     THEN <<"Missing rationale for action">> ELSE <<>>)
    \o (IF risk_event # <<>> /\ risk_event[1].severity = "critical"
           /\ action.urgency \notin {"critical", "high"}
        THEN <<"Urgency does not match critical severity">> ELSE <<>>)
    \o (IF Len(action.proposed_actions[1].steps) < 2
        THEN <<"Insufficient action steps (need at least 2)">> ELSE <<>>)
    \o (IF action.urgency = "critical" /\ action.cited_sources = <<>>
        THEN <<"Critical actions require cited sources">> ELSE <<>>)

\* variant that fails the workflow on the first failed validation
GuardrailStatusNoRetry(passed, iteration, max_iterations) ==
    IF passed THEN "awaiting_approval" ELSE "failed"

\* lines 414-420
GuardrailStatus(passed, iteration, max_iterations) ==
    IF ~passed /\ iteration < max_iterations THEN "pending"
    ELSE IF passed THEN "awaiting_approval"
    ELSE "failed"

\* variant of the guardrail that keeps the errors of the earlier attempts
GuardrailRunAccumulates(w) ==
    /\ cpu = w
    /\ pc[w] = "guardrail"
    /\ calls' = Enter(w, "guardrail")
    /\ LET s == wf[w]
           errors == s.validation_errors
                         \o Violations(s.proposed_action[1], s.risk_event)
           passed == Len(errors) = 0
       IN  /\ wf' = [wf EXCEPT
                 ![w].current_agent = "guardrail",
                 ![w].validation_errors = errors,
                 ![w].validation_passed = passed,
                 ![w].status =
                     GuardrailStatus(passed, s.iteration, s.max_iterations),
                 ![w].agent_history = Append(@,
                     Entry("guardrail", IF passed THEN 1 ELSE 0))]
           /\ pc' = [pc EXCEPT ![w] = IF passed THEN "post_loop" ELSE "loop"]
    /\ api' = NoCall
    /\ UNCHANGED <<active_workflows, cpu, exc, metrics, save_calls, db, supabase, target_role>>

\* variant of the guardrail that withdraws the action it rejects
GuardrailRunDropsAction(w) ==
    /\ cpu = w
    /\ pc[w] = "guardrail"
    /\ calls' = Enter(w, "guardrail")
    /\ LET s == wf[w]
           errors == Violations(s.proposed_action[1], s.risk_event)
           passed == Len(errors) = 0
       IN  /\ wf' = [wf EXCEPT
                 ![w].current_agent = "guardrail",
                 ![w].validation_errors = errors,
                 ![w].validation_passed = passed,
                 ![w].proposed_action = IF passed THEN @ ELSE <<>>,
                 ![w].status =
                     GuardrailStatus(passed, s.iteration, s.max_iterations),
                 ![w].agent_history = Append(@,
                     Entry("guardrail", IF passed THEN 1 ELSE 0))]
           /\ pc' = [pc EXCEPT ![w] = IF passed THEN "post_loop" ELSE "loop"]
    /\ api' = NoCall
    /\ UNCHANGED <<active_workflows, cpu, exc, metrics, save_calls, db, supabase, target_role>>

\* variant of the loop without the break of lines 662-663
GuardrailRunNoBreak(w) ==
    /\ cpu = w
    /\ pc[w] = "guardrail"
    /\ calls' = Enter(w, "guardrail")
    /\ LET s == wf[w]
           errors == Violations(s.proposed_action[1], s.risk_event)
           passed == Len(errors) = 0
       IN  /\ wf' = [wf EXCEPT
                 ![w].current_agent = "guardrail",
                 ![w].validation_errors = errors,
                 ![w].validation_passed = passed,
                 ![w].status =
                     GuardrailStatus(passed, s.iteration, s.max_iterations),
                 ![w].agent_history = Append(@,
                     Entry("guardrail", IF passed THEN 1 ELSE 0))]
           /\ pc' = [pc EXCEPT ![w] = "loop"]
    /\ api' = NoCall
    /\ UNCHANGED <<active_workflows, cpu, exc, metrics, save_calls, db, supabase, target_role>>

\* GuardrailAgent.run followed by lines 657-663 of run_workflow
GuardrailRun(w) ==
    /\ cpu = w
    /\ pc[w] = "guardrail"
    /\ calls' = Enter(w, "guardrail")
    /\ LET s == wf[w]
       IN  IF s.proposed_action = <<>>
           THEN /\ wf' = [wf EXCEPT
                     ![w].current_agent = "guardrail",
                     ![w].validation_errors = <<"No action card to validate">>,
                     ![w].validation_passed = FALSE]
                /\ pc' = [pc EXCEPT ![w] = "loop"]
           ELSE LET errors == Violations(s.proposed_action[1], s.risk_event)
                    passed == Len(errors) = 0
                IN  /\ wf' = [wf EXCEPT
                          ![w].current_agent = "guardrail",
                          ![w].validation_errors = errors,
                          ![w].validation_passed = passed,
                          ![w].status =
                              GuardrailStatus(passed, s.iteration, s.max_iterations),
                          ![w].agent_history = Append(@,
                              Entry("guardrail", IF passed THEN 1 ELSE 0))]
                    /\ pc' = [pc EXCEPT ![w] = IF passed THEN "post_loop" ELSE "loop"]
    /\ api' = NoCall
    /\ UNCHANGED <<active_workflows, cpu, exc, metrics, save_calls, db, supabase, target_role>>

\* --------------------------------------------------------- NotifierAgent
\* lines 455-462: which formatter renders the card
FormatFor(role) ==
    IF role = "physician" THEN "physician format"
    ELSE IF role = "nurse" THEN "nurse format"
    ELSE IF role = "admin" THEN "admin format"
    ELSE "generic format"

\* lines 679-680 (a metric value 1 is 1.0, 0 is 0.0)
AgentSuccess(status) ==
    Metric("agent_success", "workflow_completion",
           IF status = "completed" THEN 1 ELSE 0)

\* variant of the notifier that leaves the status to the approval calls
NotifierRunKeepsStatus(w, raised) ==
    /\ cpu = w
    /\ pc[w] = "post_loop"
    /\ wf[w].validation_passed
    /\ calls' = Enter(w, "notifier")
    /\ IF raised
       THEN /\ wf' = [wf EXCEPT ![w].current_agent = "notifier"]
            /\ Raise(w, "notifier failed")
            /\ UNCHANGED metrics
       ELSE /\ wf' = [wf EXCEPT
                 ![w].current_agent = "notifier",
                 ![w].final_output =
                     Output("notification", FormatFor(target_role[w]), <<>>,
                            wf[w].proposed_action, target_role[w]),
                 ![w].agent_history = Append(@, Entry("notifier", 0))]
            /\ metrics' = [metrics EXCEPT ![w] =
                              Append(@, AgentSuccess(wf[w].status))]
            /\ pc' = [pc EXCEPT ![w] = "save"]
            /\ UNCHANGED exc
    /\ api' = NoCall
    /\ UNCHANGED <<active_workflows, cpu, save_calls, db, supabase, target_role>>

\* variant of the post-loop step that notifies whatever the validation said
NotifierRunUnchecked(w, raised) ==
    /\ cpu = w
    /\ pc[w] = "post_loop"
    /\ calls' = Enter(w, "notifier")
    /\ IF raised
       THEN /\ wf' = [wf EXCEPT ![w].current_agent = "notifier"]
            /\ Raise(w, "notifier failed")
            /\ UNCHANGED metrics
       ELSE /\ wf' = [wf EXCEPT
                 ![w].current_agent = "notifier",
                 ![w].final_output =
                     Output("notification", FormatFor(target_role[w]), <<>>,
                            wf[w].proposed_action, target_role[w]),
                 ![w].status = "completed",
                 ![w].agent_history = Append(@, Entry("notifier", 0))]
            /\ metrics' = [metrics EXCEPT ![w] = Append(@, AgentSuccess("completed"))]
            /\ pc' = [pc EXCEPT ![w] = "save"]
            /\ UNCHANGED exc
    /\ api' = NoCall
    /\ UNCHANGED <<active_workflows, cpu, save_calls, db, supabase, target_role>>

\* line 666 true: NotifierAgent.run, then lines 668-680 of run_workflow
NotifierRun(w, raised) ==
    /\ cpu = w
    /\ pc[w] = "post_loop"
    /\ wf[w].validation_passed
    /\ calls' = Enter(w, "notifier")
    /\ LET s == wf[w]
       IN  IF s.proposed_action = <<>>
           THEN /\ wf' = [wf EXCEPT
                     ![w].current_agent = "notifier",
                     ![w].final_output =
                         Output("error", "No action to notify about", <<>>, <<>>, "")]
                /\ metrics' = [metrics EXCEPT ![w] = Append(@, AgentSuccess(s.status))]
                /\ pc' = [pc EXCEPT ![w] = "save"]
                /\ UNCHANGED exc
           ELSE IF raised
           THEN \* a formatter or action.dict() raises
                /\ wf' = [wf EXCEPT ![w].current_agent = "notifier"]
                /\ Raise(w, "notifier failed")
                /\ UNCHANGED metrics
           ELSE /\ wf' = [wf EXCEPT
                     ![w].current_agent = "notifier",
                     ![w].final_output =
                         Output("notification", FormatFor(target_role[w]), <<>>,
                                s.proposed_action, target_role[w]),
                     ![w].status = "completed",
                     ![w].agent_history = Append(@, Entry("notifier", 0))]
                /\ metrics' = [metrics EXCEPT ![w] = Append(@, AgentSuccess("completed"))]
                /\ pc' = [pc EXCEPT ![w] = "save"]
                /\ UNCHANGED exc
    /\ api' = NoCall
    /\ UNCHANGED <<active_workflows, cpu, save_calls, db, supabase, target_role>>

\* line 666 false: lines 671-680 of run_workflow
ValidationExhausted(w) ==
    /\ cpu = w
    /\ pc[w] = "post_loop"
    /\ ~wf[w].validation_passed
    /\ wf' = [wf EXCEPT
          ![w].status = "failed",
          ![w].final_output =
              Output("error", "Validation failed after max iterations",
                     wf[w].validation_errors, <<>>, "")]
    /\ metrics' = [metrics EXCEPT ![w] = Append(@, AgentSuccess("failed"))]
    /\ pc' = [pc EXCEPT ![w] = "save"]
    /\ api' = NoCall
    /\ UNCHANGED <<active_workflows, cpu, exc, calls, save_calls, db, supabase,
                   target_role>>

\* variant of the handler that records the error and keeps the status
ExceptHandlerKeepsStatus(w) ==
    /\ cpu = w
    /\ pc[w] = "except"
    /\ wf' = [wf EXCEPT
          ![w].final_output = Output("error", exc[w], <<>>, <<>>, "")]
    /\ pc' = [pc EXCEPT ![w] = "save"]
    /\ api' = NoCall
    /\ UNCHANGED <<active_workflows, cpu, exc, calls, metrics, save_calls, db,
                   supabase, target_role>>

\* variant of the handler that fails every registered workflow
ExceptHandlerFailsAll(w) ==
    /\ cpu = w
    /\ pc[w] = "except"
    /\ wf' = [v \in WorkflowIds |->
                IF v \in active_workflows
                THEN [wf[v] EXCEPT
                        !.status = "failed",
                        !.final_output = Output("error", exc[w], <<>>, <<>>, "")]
                ELSE wf[v]]
    /\ pc' = [pc EXCEPT ![w] = "save"]
    /\ api' = NoCall
    /\ UNCHANGED <<active_workflows, cpu, exc, calls, metrics, save_calls, db,
                   supabase, target_role>>

\* lines 682-684
ExceptHandler(w) ==
    /\ cpu = w
    /\ pc[w] = "except"
    /\ wf' = [wf EXCEPT
          ![w].status = "failed",
          ![w].final_output = Output("error", exc[w], <<>>, <<>>, "")]
    /\ pc' = [pc EXCEPT ![w] = "save"]
    /\ api' = NoCall
    /\ UNCHANGED <<active_workflows, cpu, exc, calls, metrics, save_calls, db,
                   supabase, target_role>>

\* ------------------------------------------------- _save_workflow_to_db
\* json.dumps of line 583: the history as JSON text, one object per entry,
\* written here as the sequence of its (agent, detail) members
JsonDumps(history) ==
    [i \in DOMAIN history |-> <<history[i].agent, history[i].detail>>]

\* json.loads of line 583: the text parsed back into a list of dicts
JsonLoads(text) ==
    [i \in DOMAIN text |-> [agent |-> text[i][1], detail |-> text[i][2]]]

\* lines 579-583
make_json_safe(data) == JsonLoads(JsonDumps(data))

\* variant of the row that stores the history without its newest entry
WorkflowRowStaleHistory(w, s) ==
    [workflow_id |-> w, status |-> s.status, trigger_type |-> "auto",
     target_role |-> target_role[w], risk_event |-> s.risk_event,
     action_card |-> s.proposed_action, final_output |-> s.final_output,
     agent_history |-> make_json_safe(
         [i \in 1..(Len(s.agent_history) - 1) |-> s.agent_history[i]]),
     validation_passed |-> s.validation_passed,
     validation_errors |-> s.validation_errors]

\* lines 585-598: the row, every value JSON-safe
WorkflowRow(w, s) ==
    [workflow_id |-> w, status |-> s.status, trigger_type |-> "auto",
     target_role |-> target_role[w], risk_event |-> s.risk_event,
     action_card |-> s.proposed_action, final_output |-> s.final_output,
     agent_history |-> make_json_safe(s.agent_history),
     validation_passed |-> s.validation_passed,
     validation_errors |-> s.validation_errors]

\* variant of the save that reports a failed insert in the workflow
SaveWorkflowReportsError(w, insert_raises) ==
    /\ cpu = w
    /\ pc[w] = "save"
    /\ save_calls' = [save_calls EXCEPT ![w] = @ + 1]
    /\ IF ~supabase
       THEN UNCHANGED <<db, wf>>
       ELSE IF insert_raises
       THEN /\ UNCHANGED db
            /\ wf' = [wf EXCEPT
                  ![w].status = "failed",
                  ![w].final_output =
                      Output("error", "save failed", <<>>, <<>>, "")]
       ELSE /\ db' = [db EXCEPT ![w] = Append(@, WorkflowRow(w, wf[w]))]
            /\ UNCHANGED wf
    /\ pc' = [pc EXCEPT ![w] = "done"]
    /\ cpu' = 0
    /\ api' = NoCall
    /\ UNCHANGED <<active_workflows, exc, calls, metrics, supabase, target_role>>

\* lines 686-689: _save_workflow_to_db, then the return
SaveWorkflow(w, insert_raises) ==
    /\ cpu = w
    /\ pc[w] = "save"
    /\ save_calls' = [save_calls EXCEPT ![w] = @ + 1]
    /\ IF ~supabase \/ insert_raises
       THEN \* no client, or the error of the insert is printed and dropped
            UNCHANGED db
       ELSE db' = [db EXCEPT ![w] = Append(@, WorkflowRow(w, wf[w]))]
    /\ pc' = [pc EXCEPT ![w] = "done"]
    /\ cpu' = 0
    /\ api' = NoCall
    /\ UNCHANGED <<wf, active_workflows, exc, calls, metrics, supabase, target_role>>

\* ------------------------------------------------ operations on the registry
Call(op, id, arg, ret) == [op |-> op, id |-> id, arg |-> arg, ret |-> ret]

\* variant of the test that only looks the workflow up
CanDecideAnyStatus(id) == id \in active_workflows

\* the test of lines 698 and 706
CanDecide(id) ==
    id \in active_workflows /\ wf[id].status = "awaiting_approval"

\* variant of approve_action that does not test the status
approve_action_unchecked(id) ==
    /\ cpu = 0
    /\ IF id \in active_workflows
       THEN /\ wf' = [wf EXCEPT ![id].status = "approved"]
            /\ api' = Call("approve", id, "", TRUE)
       ELSE /\ UNCHANGED wf
            /\ api' = Call("approve", id, "", FALSE)
    /\ UNCHANGED <<active_workflows, pc, cpu, exc, calls, metrics, save_calls, db,
                   supabase, target_role>>

approve_action(id) ==
    /\ cpu = 0
    /\ IF CanDecide(id)
       THEN /\ wf' = [wf EXCEPT ![id].status = "approved"]
            /\ api' = Call("approve", id, "", TRUE)
       ELSE /\ UNCHANGED wf
            /\ api' = Call("approve", id, "", FALSE)
    /\ UNCHANGED <<active_workflows, pc, cpu, exc, calls, metrics, save_calls, db,
                   supabase, target_role>>

\* variant of reject_action that records the reason before testing the status
reject_action_records_first(id, reason) ==
    /\ cpu = 0
    /\ IF CanDecide(id)
       THEN /\ wf' = [wf EXCEPT
                 ![id].status = "rejected",
                 ![id].validation_errors = Append(@, "Rejected: " \o reason)]
            /\ api' = Call("reject", id, reason, TRUE)
       ELSE /\ IF id \in active_workflows
               THEN wf' = [wf EXCEPT
                      ![id].validation_errors = Append(@, "Rejected: " \o reason)]
               ELSE UNCHANGED wf
            /\ api' = Call("reject", id, reason, FALSE)
    /\ UNCHANGED <<active_workflows, pc, cpu, exc, calls, metrics, save_calls, db,
                   supabase, target_role>>

reject_action(id, reason) ==
    /\ cpu = 0
    /\ IF CanDecide(id)
       THEN /\ wf' = [wf EXCEPT
                 ![id].status = "rejected",
                 ![id].validation_errors = Append(@, "Rejected: " \o reason)]
            /\ api' = Call("reject", id, reason, TRUE)
       ELSE /\ UNCHANGED wf
            /\ api' = Call("reject", id, reason, FALSE)
    /\ UNCHANGED <<active_workflows, pc, cpu, exc, calls, metrics, save_calls, db,
                   supabase, target_role>>

\* returns the state object, or None: ret tells which
get_workflow_status(id) ==
    /\ cpu = 0
    /\ api' = Call("status", id, "", id \in active_workflows)
    /\ UNCHANGED <<wf, active_workflows, pc, cpu, exc, calls, metrics, save_calls,
                   db, supabase, target_role>>

\* EvaluationService.get_audit_trail: the row of the workflows table when
\* the client is configured, the select succeeds and finds one; otherwise the
\* workflow of the registry; otherwise an error
AuditTrail(id, read_raises) ==
    IF supabase /\ ~read_raises /\ id \in WorkflowIds /\ db[id] # <<>>
    THEN [found |-> TRUE, from_db |-> TRUE, status |-> db[id][1].status,
          timeline |-> db[id][1].agent_history,
          final_output |-> db[id][1].final_output]
    ELSE IF id \in active_workflows
    THEN [found |-> TRUE, from_db |-> FALSE, status |-> wf[id].status,
          timeline |-> wf[id].agent_history,
          final_output |-> wf[id].final_output]
    ELSE [found |-> FALSE, from_db |-> FALSE, status |-> "", timeline |-> <<>>,
          final_output |-> <<>>]

\* GET /audit/{workflow_id}
get_audit_trail(id, read_raises) ==
    /\ cpu = 0
    /\ LET trail == AuditTrail(id, read_raises)
       IN  api' = [op |-> "audit", id |-> id, arg |-> "", ret |-> trail.found,
                   trail |-> trail]
    /\ UNCHANGED <<wf, active_workflows, pc, cpu, exc, calls, metrics, save_calls,
                   db, supabase, target_role>>

\* one step of the run_workflow call that creates workflow w
RunStep(w) ==
    \/ \E role \in TargetRoles : RunWorkflowStart(w, role)
    \/ \E outcome \in MonitorOutcomes : MonitorRun(w, outcome)
    \/ \E outcome \in RetrievalOutcomes : RetrievalRun(w, outcome)
    \/ PlanningBegin(w)
    \/ \E outcome \in LLMOutcomes : PlanningResume(w, outcome)
    \/ GuardrailRun(w)
    \/ \E raised \in BOOLEAN : NotifierRun(w, raised)
    \/ ValidationExhausted(w)
    \/ ExceptHandler(w)
    \/ \E insert_raises \in BOOLEAN : SaveWorkflow(w, insert_raises)

\* one request of the API layer on the registry
ApiStep ==
    \E id \in AllIds :
        \/ approve_action(id)
        \/ \E reason \in Reasons : reject_action(id, reason)
        \/ get_workflow_status(id)
        \/ \E read_raises \in BOOLEAN : get_audit_trail(id, read_raises)

Next ==
    \/ \E w \in RunIds : RunStep(w)
    \/ ApiStep

Spec == Init /\ [][Next]_vars

\* --------------------------------------------------------------- fairness
\* a step of a run_workflow call that has started
RunProgress(w) ==
    \/ \E outcome \in MonitorOutcomes : MonitorRun(w, outcome)
    \/ \E outcome \in RetrievalOutcomes : RetrievalRun(w, outcome)
    \/ PlanningBegin(w)
    \/ \E outcome \in LLMOutcomes : PlanningResume(w, outcome)
    \/ GuardrailRun(w)
    \/ \E raised \in BOOLEAN : NotifierRun(w, raised)
    \/ ValidationExhausted(w)
    \/ ExceptHandler(w)
    \/ \E insert_raises \in BOOLEAN : SaveWorkflow(w, insert_raises)

\* the event loop runs a coroutine that is ready, and every call to a
\* collaborator (the HTTP call of the LLM included) returns or raises
SpecFair == Spec /\ \A w \in RunIds : WF_vars(RunProgress(w))

\* ------------------------------------------------- several runs in flight
\* what the collaborators do in the runs that interleave: the monitor raises
\* or detects nothing (demo event), the retriever raises or finds nothing,
\* the LLM is down, answers JSON that is not an object, or answers an object
\* the guardrail rejects
RunsMonitorOutcomes == {o \in MonitorOutcomes : o.raised \/ o.events = <<>>}

RunsRetrievalOutcomes ==
    {o \in RetrievalOutcomes : o.raised \/ o.result.sources = <<>>}

RunsLLMOutcomes ==
    { o \in LLMOutcomes :
        \/ o.http = "down"
        \/ o.http = "200" /\ o.text.kind = "json_scalar"
        \/ o.http = "200" /\ o.text.kind = "json_object"
           /\ o.text.obj = JsonObject("alert", "medium", "", TRUE, StepList(0)) }

\* one step of one of the run_workflow calls
RunsRunStep(w) ==
    \/ \E role \in TargetRoles : RunWorkflowStart(w, role)
    \/ \E outcome \in RunsMonitorOutcomes : MonitorRun(w, outcome)
    \/ \E outcome \in RunsRetrievalOutcomes : RetrievalRun(w, outcome)
    \/ PlanningBegin(w)
    \/ \E outcome \in RunsLLMOutcomes : PlanningResume(w, outcome)
    \/ GuardrailRun(w)
    \/ \E raised \in BOOLEAN : NotifierRun(w, raised)
    \/ ValidationExhausted(w)
    \/ ExceptHandler(w)
    \/ \E insert_raises \in BOOLEAN : SaveWorkflow(w, insert_raises)

\* a second run_workflow call starts whenever the event loop is free: while
\* the first waits for the LLM, or after it returned
RunsNext ==
    \/ \E w \in WorkflowIds : RunsRunStep(w)
    \/ ApiStep

SpecRuns == Init /\ [][RunsNext]_vars

\* ------------------------------------------------- runs without the LLM
\* the LLM is unavailable for the whole run: the connection fails, or the
\* server answers with an error status
DownLLMOutcomes == {o \in LLMOutcomes : o.http # "200"}

\* one step of a run_workflow call while the LLM is unavailable
DownRunStep(w) ==
    \/ \E role \in TargetRoles : RunWorkflowStart(w, role)
    \/ \E outcome \in MonitorOutcomes : MonitorRun(w, outcome)
    \/ \E outcome \in RetrievalOutcomes : RetrievalRun(w, outcome)
    \/ PlanningBegin(w)
    \/ \E outcome \in DownLLMOutcomes : PlanningResume(w, outcome)
    \/ GuardrailRun(w)
    \/ \E raised \in BOOLEAN : NotifierRun(w, raised)
    \/ ValidationExhausted(w)
    \/ ExceptHandler(w)
    \/ \E insert_raises \in BOOLEAN : SaveWorkflow(w, insert_raises)

DownNext ==
    \/ \E w \in RunIds : DownRunStep(w)
    \/ ApiStep

SpecDown == Init /\ [][DownNext]_vars

\* ------------------------------------------- runs for every target role
\* target_role arguments of the notifier: the three the code tests for, the
\* fourth of ROLE_TEMPLATES, and one that is not listed anywhere
NotifierRoles == {"physician", "nurse", "admin", "patient", "visitor"}

\* answers of the LLM that decide which way a run goes: no answer, text that
\* is not JSON, JSON that is not an object, an object the guardrail rejects
\* and one it accepts
RoleLLMOutcomes ==
    { o \in LLMOutcomes :
        \/ o.http # "200"
        \/ o.text.kind # "json_object"
        \/ o.text.obj \in {JsonObject("alert", "medium", "", TRUE, StepList(0)),
                           JsonObject("alert", "high", "per SOP", TRUE,
                                      StepList(MaxSteps))} }

\* one step of a run_workflow call with any target role
RoleRunStep(w) ==
    \/ \E role \in NotifierRoles : RunWorkflowStart(w, role)
    \/ \E outcome \in MonitorOutcomes : MonitorRun(w, outcome)
    \/ \E outcome \in RetrievalOutcomes : RetrievalRun(w, outcome)
    \/ PlanningBegin(w)
    \/ \E outcome \in RoleLLMOutcomes : PlanningResume(w, outcome)
    \/ GuardrailRun(w)
    \/ \E raised \in BOOLEAN : NotifierRun(w, raised)
    \/ ValidationExhausted(w)
    \/ ExceptHandler(w)
    \/ \E insert_raises \in BOOLEAN : SaveWorkflow(w, insert_raises)

RoleNext == \E w \in RunIds : RoleRunStep(w)

SpecRoles == Init /\ [][RoleNext]_vars

\* ================================================================ claims
Terminal == {"approved", "rejected", "completed", "failed"}

Range(seq) == {seq[i] : i \in DOMAIN seq}

Count(history, agent) ==
    Cardinality({i \in DOMAIN history : history[i].agent = agent})

Returned(w) == pc[w] = "done"

\* C1: whatever stage raises, run_workflow returns: the exception is taken by
\* the handler and never leaves the call, the returned status is failed and
\* final_output carries the error text; no returned workflow is running or
\* pending.
C1_ErrorsEndFailed ==
    \A w \in WorkflowIds :
        /\ exc[w] # "none" => pc[w] \in {"except", "save", "done"}
        /\ Returned(w) => wf[w].status \notin {"running", "pending"}
        /\ Returned(w) /\ exc[w] # "none" =>
              /\ wf[w].status = "failed"
              /\ wf[w].final_output = Output("error", exc[w], <<>>, <<>>, "")

\* a run returned after its notifier raised, following a passed validation
C1_Witness ==
    \E w \in WorkflowIds :
        /\ Returned(w)
        /\ exc[w] = "notifier failed"
        /\ wf[w].status = "failed"
        /\ wf[w].validation_passed

\* C2: 0 <= iteration <= max_iterations in every state, the planning stage is
\* entered at most max_iterations times, and iteration never decreases.
C2_IterationBounded ==
    /\ [](\A w \in WorkflowIds :
             /\ 0 <= wf[w].iteration
             /\ wf[w].iteration <= wf[w].max_iterations
             /\ wf[w].max_iterations = MaxIterations
             /\ calls[w]["planning"] <= wf[w].max_iterations)
    /\ [][\A w \in WorkflowIds : wf'[w].iteration >= wf[w].iteration]_vars

\* the third planning attempt of a run is waiting for the LLM
C2_Witness ==
    \E w \in WorkflowIds :
        /\ wf[w].iteration = MaxIterations
        /\ calls[w]["planning"] = MaxIterations
        /\ pc[w] = "llm_wait"

\* C3: when run_workflow returns, the planning entries of agent_history, its
\* guardrail entries and the iteration counter are the same number.
C3_AuditCountsMatch ==
    \A w \in WorkflowIds :
        Returned(w) =>
            /\ Count(wf[w].agent_history, "planning") = wf[w].iteration
            /\ Count(wf[w].agent_history, "guardrail") = wf[w].iteration

\* C4 as stated: the status changes only along the edges of the spec.
SpecEdges ==
    { <<"pending", "running">>,
      <<"running", "completed">>, <<"running", "awaiting_approval">>,
      <<"running", "failed">>,
      <<"awaiting_approval", "approved">>, <<"awaiting_approval", "rejected">> }

CodeEdges ==
    SpecEdges \cup
    { <<"running", "pending">>,
      <<"pending", "awaiting_approval">>, <<"pending", "failed">>,
      <<"awaiting_approval", "completed">>, <<"awaiting_approval", "failed">> }

C5_TerminalIsFinal ==
    [][\A w \in WorkflowIds :
          w \in active_workflows /\ wf[w].status \in Terminal =>
              /\ wf'[w].status = wf[w].status
              /\ calls'[w] = calls[w]
              /\ wf'[w].current_agent = wf[w].current_agent
              /\ wf'[w].agent_history = wf[w].agent_history]_vars

\* reject_action was called on a workflow that had ended failed
C5_Witness ==
    \E w \in WorkflowIds :
        /\ Returned(w)
        /\ wf[w].status = "failed"
        /\ api = Call("reject", w, "not needed", FALSE)

\* C6: every run_workflow call invokes _save_workflow_to_db exactly once: not
\* before the status is terminal, with the state as it is returned, and
\* before the call returns.
C6_SavedExactlyOnce ==
    /\ [](\A w \in WorkflowIds :
             /\ save_calls[w] <= 1
             /\ Returned(w) => save_calls[w] = 1
             /\ save_calls[w] = 1 => Returned(w) /\ wf[w].status \in Terminal)
    /\ [][\A w \in WorkflowIds :
             save_calls'[w] # save_calls[w] =>
                 /\ wf[w].status \in Terminal
                 /\ wf'[w] = wf[w]]_vars

\* a run in which the checks found nothing has returned, saved once
C6_Witness ==
    \E w \in WorkflowIds :
        /\ Returned(w)
        /\ save_calls[w] = 1
        /\ wf[w].risk_event = <<DemoEvent>>
        /\ wf[w].status = "completed"

\* the capacity and patient checks of the run found no event: the monitor
\* returned and the workflow has no event or the demo event (no check
\* produces an event of the demo event's type)
DetectedNothing(w) ==
    /\ Count(wf[w].agent_history, "monitor") = 1
    /\ wf[w].risk_event = <<>> \/ wf[w].risk_event = <<DemoEvent>>

\* C7: a run whose checks detect no event ends completed, final_output says
\* that no risk events were detected, and agent_history has no planning,
\* guardrail or notifier entry.
C7_NoEventCompletes ==
    \A w \in WorkflowIds :
        Returned(w) /\ DetectedNothing(w) =>
            /\ wf[w].status = "completed"
            /\ wf[w].final_output =
                  Output("message", "No risk events detected", <<>>, <<>>, "")
            /\ Count(wf[w].agent_history, "planning") = 0
            /\ Count(wf[w].agent_history, "guardrail") = 0
            /\ Count(wf[w].agent_history, "notifier") = 0

\* C8: approve_action(id) returns true and sets the status to approved exactly
\* when id is registered with status awaiting_approval; in every other case it
\* returns false and changes no field of any workflow.
C8_ApproveContract ==
    [][api'.op = "approve" =>
          LET id == api'.id
          IN  IF id \in active_workflows /\ wf[id].status = "awaiting_approval"
              THEN /\ api'.ret
                   /\ wf' = [wf EXCEPT ![id].status = "approved"]
              ELSE /\ ~api'.ret
                   /\ wf' = wf
                   /\ active_workflows' = active_workflows]_vars

\* approve_action was called on a completed workflow and returned false
C8_Witness ==
    \E w \in WorkflowIds :
        /\ api = Call("approve", w, "", FALSE)
        /\ w \in active_workflows
        /\ wf[w].status = "completed"

\* C9: reject_action(id, reason) returns true, sets the status to rejected and
\* appends the reason to validation_errors exactly when id is registered with
\* status awaiting_approval; otherwise it returns false and changes no field
\* of any workflow.
C9_RejectContract ==
    [][api'.op = "reject" =>
          LET id == api'.id
          IN  IF id \in active_workflows /\ wf[id].status = "awaiting_approval"
              THEN /\ api'.ret
                   /\ wf' = [wf EXCEPT
                         ![id].status = "rejected",
                         ![id].validation_errors =
                             Append(@, "Rejected: " \o api'.arg)]
              ELSE /\ ~api'.ret
                   /\ wf' = wf
                   /\ active_workflows' = active_workflows]_vars

\* reject_action was called on a workflow whose run is waiting for the LLM
\* after a failed validation, and returned false
C9_Witness ==
    \E w \in WorkflowIds :
        /\ api = Call("reject", w, "not needed", FALSE)
        /\ pc[w] = "llm_wait"
        /\ wf[w].validation_errors # <<>>

\* the guardrail was the last stage to run on w: validation_errors and
\* validation_passed are its verdict on proposed_action
Validated(w) ==
    wf[w].current_agent = "guardrail" /\ wf[w].proposed_action # <<>>

\* C10: the guardrail reports exactly the rules the action breaks, each rule
\* on its own: no rationale; critical event with urgency neither critical nor
\* high; fewer than two steps; urgency critical without a cited source.
\* passed is true iff nothing is reported.  Fewer than two steps always
\* fails; two steps, a rationale and urgency high pass on a critical event.
C10_GuardrailRules ==
    \A w \in WorkflowIds :
        Validated(w) =>
            LET action == wf[w].proposed_action[1]
                first == action.proposed_actions[1]
                event == wf[w].risk_event[1]
                errors == wf[w].validation_errors
                passed == wf[w].validation_passed
            IN  /\ "Missing rationale for action" \in Range(errors)
                      <=> first.rationale = ""
                /\ "Urgency does not match critical severity" \in Range(errors)
                      <=> (event.severity = "critical"
                           /\ action.urgency \notin {"critical", "high"})
                /\ "Insufficient action steps (need at least 2)" \in Range(errors)
                      <=> Len(first.steps) < 2
                /\ "Critical actions require cited sources" \in Range(errors)
                      <=> (action.urgency = "critical" /\ action.cited_sources = <<>>)
                /\ Range(errors) \subseteq
                      {"Missing rationale for action",
                       "Urgency does not match critical severity",
                       "Insufficient action steps (need at least 2)",
                       "Critical actions require cited sources"}
                /\ Len(errors) = Cardinality(Range(errors))
                /\ passed <=> errors = <<>>
                /\ Len(first.steps) < 2 => ~passed
                /\ (Len(first.steps) = 2 /\ first.rationale # ""
                    /\ action.urgency = "high" /\ event.severity = "critical")
                      => passed

\* an action that breaks three rules at once was validated
C10_Witness ==
    \E w \in WorkflowIds :
        /\ Validated(w)
        /\ Len(wf[w].validation_errors) = 3
        /\ ~wf[w].validation_passed

\* the run of w returned after the loop ended without a passed validation
Exhausted(w) ==
    Returned(w) /\ exc[w] = "none" /\ ~wf[w].validation_passed

\* C11: a run whose validations all fail ends failed after exactly
\* max_iterations planning attempts (and as many validations), and the errors
\* of final_output are the violations of the last proposed action alone:
\* what the earlier attempts broke is not carried along.
C11_ExhaustedReportsLastAttempt ==
    \A w \in WorkflowIds :
        Exhausted(w) =>
            /\ wf[w].status = "failed"
            /\ wf[w].iteration = wf[w].max_iterations
            /\ calls[w]["planning"] = wf[w].max_iterations
            /\ calls[w]["guardrail"] = wf[w].max_iterations
            /\ wf[w].proposed_action[1].card_id = wf[w].max_iterations
            /\ wf[w].final_output =
                   Output("error", "Validation failed after max iterations",
                          Violations(wf[w].proposed_action[1], wf[w].risk_event),
                          <<>>, "")
            /\ wf[w].final_output[1].errors = wf[w].validation_errors

\* three attempts failed and the last one broke exactly one rule
C11_Witness ==
    \E w \in WorkflowIds :
        /\ Exhausted(w)
        /\ Len(wf[w].final_output[1].errors) = 1
        /\ Count(wf[w].agent_history, "guardrail") = MaxIterations

\* C12: the save of the final state never changes the workflow: the step
\* that saves leaves status, final_output, validation_passed,
\* validation_errors, agent_history and every other field as they were,
\* whether the insert is skipped, raises or succeeds, and a row that was
\* written holds exactly that workflow.
C12_SaveFailureChangesNothing ==
    /\ [][\A w \in WorkflowIds :
            pc[w] = "save" /\ pc'[w] # "save" =>
                /\ wf' = wf
                /\ exc' = exc
                /\ pc'[w] = "done"
                /\ db'[w] \in {db[w], <<WorkflowRow(w, wf[w])>>}]_vars
    /\ [](\A w \in WorkflowIds :
            Returned(w) /\ db[w] # <<>> => db[w] = <<WorkflowRow(w, wf[w])>>)

\* a completed run returned although the insert raised
C12_Witness ==
    \E w \in WorkflowIds :
        /\ Returned(w)
        /\ supabase
        /\ db[w] = <<>>
        /\ wf[w].status = "completed"
        /\ wf[w].final_output[1].kind = "notification"

\* C13: planning never raises, whatever text the LLM returns: an answer that
\* is not JSON, or is JSON but not an object, is replaced by the fallback
\* and the run goes on to the guardrail.
C13_PlanningNeverRaises ==
    /\ \A w \in WorkflowIds : exc[w] # "planning failed"
    /\ \A w \in WorkflowIds :
           Returned(w) /\ calls[w]["planning"] > 0 /\ exc[w] = "none" =>
               calls[w]["guardrail"] = calls[w]["planning"]

\* the roles the notifier is said to support
SupportedRoles == {"physician", "nurse", "admin", "patient"}

\* the notifier rendered the action of w
Notified(w) ==
    /\ pc[w] \in {"save", "done"}
    /\ wf[w].current_agent = "notifier"
    /\ exc[w] = "none"
    /\ wf[w].proposed_action # <<>>

\* C14: the notifier renders physician, nurse, admin and patient each with a
\* rendering of its own, one no other role gets, and answers any other role
\* with an unsupported-role result instead of a default rendering.
C14_RolesSupported ==
    \A w \in WorkflowIds :
        Notified(w) =>
            LET out == wf[w].final_output[1]
                role == target_role[w]
            IN  IF role \in SupportedRoles
                THEN /\ out.kind = "notification"
                     /\ out.role = role
                     /\ \A r \in NotifierRoles \ {role} : FormatFor(r) # out.message
                ELSE out.kind = "unsupported_role"

\* C15: when every collaborator call returns or raises and a ready coroutine
\* is run, every run_workflow call that started returns, with a terminal
\* status: the plan/validate loop does not repeat for ever.
C15_RunTerminates ==
    \A w \in WorkflowIds :
        (pc[w] # "idle") ~> (Returned(w) /\ wf[w].status \in Terminal)

\* a run returned after its loop used every attempt and passed on the last
C15_Witness ==
    \E w \in WorkflowIds :
        /\ Returned(w)
        /\ wf[w].iteration = MaxIterations
        /\ Count(wf[w].agent_history, "guardrail") = MaxIterations
        /\ wf[w].status = "completed"

\* the agent_success metrics logged for w, in order
SuccessMetrics(w) ==
    SelectSeq(metrics[w], LAMBDA m : m.category = "agent_success")

\* C16: every run that returned logged exactly one agent_success metric,
\* worth 1.0 when the run ended completed and 0.0 otherwise; a run that ended
\* failed because a collaborator raised logged it too.
C16_OneSuccessMetric ==
    \A w \in WorkflowIds :
        Returned(w) =>
            /\ Len(SuccessMetrics(w)) = 1
            /\ SuccessMetrics(w)[1].value =
                   IF wf[w].status = "completed" THEN 1 ELSE 0

\* the stage names of a history or timeline, in order
StageNames(history) == [i \in DOMAIN history |-> history[i].agent]

Observable(w) == w \in active_workflows /\ cpu = 0

\* C18: whenever another task can read a workflow, while planning waits for
\* the LLM included, its iteration is the number of planning entries in its
\* agent_history.
C18_IterationMatchesHistory ==
    \A w \in WorkflowIds :
        Observable(w) =>
            wf[w].iteration = Count(wf[w].agent_history, "planning")

\* run_workflow was called for w and has not returned
InProgress(w) == pc[w] \notin {"idle", "done"}

\* C19: approve_action and reject_action never act on a run in progress: a
\* call that arrives before run_workflow returned changes no field of the
\* workflow and returns false, and a status of approved or rejected is only
\* ever found on a workflow whose run returned, so no stage writes over it.
C19_DecisionsExcludeRun ==
    /\ [][\A w \in WorkflowIds :
            InProgress(w) /\ api'.op \in {"approve", "reject"} =>
                /\ wf'[w] = wf[w]
                /\ pc'[w] = pc[w]
                /\ api'.id = w => ~api'.ret]_vars
    /\ [](\A w \in WorkflowIds :
            wf[w].status \in {"approved", "rejected"} => Returned(w))

\* approve_action was called on a running workflow whose first planning
\* attempt waits for the LLM, and returned false
C19_Witness ==
    \E w \in WorkflowIds :
        /\ api = Call("approve", w, "", FALSE)
        /\ pc[w] = "llm_wait"
        /\ wf[w].status = "running"
        /\ wf[w].iteration = 1

PassedAt(w) ==
    {i \in DOMAIN wf[w].agent_history :
        /\ wf[w].agent_history[i].agent = "guardrail"
        /\ wf[w].agent_history[i].detail = 1}

\* C21: a passed validation ends the loop: at most one validation of a run
\* passes, nothing but the notifier is recorded after it, no planning or
\* guardrail stage is entered after it, the notifier is entered at most once
\* and only after a pass, and a run that returned after a pass without an
\* error entered the notifier exactly once.
C21_LoopExitsOnPass ==
    \A w \in WorkflowIds :
        LET h == wf[w].agent_history
        IN  /\ Cardinality(PassedAt(w)) <= 1
            /\ \A i \in PassedAt(w) : \A j \in DOMAIN h :
                   j > i => h[j].agent = "notifier"
            /\ PassedAt(w) # {} =>
                   /\ wf[w].validation_passed
                   /\ calls[w]["planning"] = Count(h, "planning")
                   /\ calls[w]["guardrail"] = Count(h, "guardrail")
            /\ calls[w]["notifier"] <= 1
            /\ calls[w]["notifier"] = 1 =>
                   PassedAt(w) # {} /\ wf[w].validation_passed
            /\ ~wf[w].validation_passed => calls[w]["notifier"] = 0
            /\ Returned(w) /\ PassedAt(w) # {} => calls[w]["notifier"] = 1

\* a run passed its second validation, was notified and returned
C21_Witness ==
    \E w \in WorkflowIds :
        /\ Returned(w)
        /\ PassedAt(w) = {6}
        /\ Len(wf[w].agent_history) = 7
        /\ wf[w].agent_history[7].agent = "notifier"

IsPrefix(s, t) == Len(s) <= Len(t) /\ \A i \in DOMAIN s : s[i] = t[i]

\* monitor, retrieval, k times (planning, guardrail), notifier
StageOrder(k) ==
    [i \in 1..(2 * k + 3) |->
        IF i = 1 THEN "monitor"
        ELSE IF i = 2 THEN "retrieval"
        ELSE IF i = 2 * k + 3 THEN "notifier"
        ELSE IF i % 2 = 1 THEN "planning" ELSE "guardrail"]

\* the text the handler holds when stage `agent' raised
FailureOf(agent) ==
    [monitor |-> "monitor failed", retrieval |-> "retrieval failed",
     planning |-> "planning failed", guardrail |-> "guardrail failed",
     notifier |-> "notifier failed"][agent]

\* how often stage `agent' ran to its end for w: the calls made, less the one
\* that waits for the LLM or that raised
Completed(w, agent) ==
    calls[w][agent]
      - (IF (agent = "planning" /\ pc[w] = "llm_wait") \/ exc[w] = FailureOf(agent)
         THEN 1 ELSE 0)

\* C22: agent_history only grows at its end, its stage names are at every
\* moment a prefix of monitor, retrieval, k times (planning, guardrail),
\* notifier for some k from 1 to max_iterations, and every stage that ran to
\* its end has its entry.
C22_HistoryAppendOnly ==
    /\ [][\A w \in WorkflowIds :
            IsPrefix(wf[w].agent_history, wf'[w].agent_history)]_vars
    /\ [](\A w \in WorkflowIds :
            /\ \E k \in 1..wf[w].max_iterations :
                   IsPrefix(StageNames(wf[w].agent_history), StageOrder(k))
            /\ \A agent \in Agents :
                   Count(wf[w].agent_history, agent) = Completed(w, agent))

\* a reader sees the history of a run that waits for the LLM a third time
C22_Witness ==
    \E w \in WorkflowIds :
        /\ Observable(w)
        /\ pc[w] = "llm_wait"
        /\ StageNames(wf[w].agent_history) =
               <<"monitor", "retrieval", "planning", "guardrail",
                 "planning", "guardrail">>

\* the run of w is past its retrieval stage
PastRetrieval(w) ==
    \/ pc[w] \in {"loop", "llm_wait", "guardrail", "post_loop"}
    \/ pc[w] \in {"except", "save", "done"} /\ exc[w] # "monitor failed"

\* C23: the retriever is called once in a run that has a risk event and
\* never again, and from the end of the retrieval stage on retrieved_context,
\* retrieved_sources and risk_event keep their values: every planning attempt
\* reads the same event and context.
C23_RetrievalOnce ==
    /\ [](\A w \in WorkflowIds :
            /\ calls[w]["retrieval"] <= 1
            /\ PastRetrieval(w) =>
                   wf[w].risk_event # <<>> /\ calls[w]["retrieval"] = 1
            /\ calls[w]["planning"] > 0 =>
                   /\ wf[w].retrieved_context # <<>>
                   /\ wf[w].retrieved_sources # <<>>
                   /\ Count(wf[w].agent_history, "retrieval") = 1)
    /\ [][\A w \in WorkflowIds :
            PastRetrieval(w) =>
                /\ wf'[w].retrieved_context = wf[w].retrieved_context
                /\ wf'[w].retrieved_sources = wf[w].retrieved_sources
                /\ wf'[w].risk_event = wf[w].risk_event
                /\ calls'[w]["retrieval"] = calls[w]["retrieval"]]_vars

\* the third planning attempt of a run has begun with the context of the
\* one retrieval
C23_Witness ==
    \E w \in WorkflowIds :
        /\ pc[w] = "llm_wait"
        /\ wf[w].iteration = MaxIterations
        /\ calls[w]["retrieval"] = 1
        /\ wf[w].retrieved_context = <<"ICU capacity SOP">>
        /\ wf[w].retrieved_sources[1] # <<>>

\* the step is one of the run_workflow call of w
StepOfRun(w) == pc'[w] # pc[w]

\* the step is a request that names workflow id
RequestNaming(id) == api'.op # "none" /\ api'.id = id

\* C24: with several runs in flight, a step of the run of one workflow, its
\* registration and its save included, and a request that names it, leave
\* every other workflow as it was; a workflow changes only in a step of its
\* own run or in an approve or reject call that names it.
C24_RunsIsolated ==
    [][\A a \in WorkflowIds :
          /\ StepOfRun(a) \/ RequestNaming(a) =>
                 \A b \in WorkflowIds \ {a} :
                     /\ wf'[b] = wf[b]
                     /\ pc'[b] = pc[b]
                     /\ calls'[b] = calls[b]
                     /\ exc'[b] = exc[b]
          /\ wf'[a] # wf[a] =>
                 \/ StepOfRun(a)
                 \/ api'.op \in {"approve", "reject"} /\ api'.id = a]_vars

\* two runs wait for the LLM at once, the first in its second attempt
C24_Witness ==
    /\ pc[1] = "llm_wait"
    /\ pc[2] = "llm_wait"
    /\ wf[1].iteration = 2
    /\ wf[2].iteration = 1
    /\ Len(wf[1].agent_history) = 4
    /\ Len(wf[2].agent_history) = 2

\* the workflows created so far
Created == {w \in WorkflowIds : pc[w] # "idle"}

\* C25: a run registers its workflow once, under an id not used before, when
\* it is created and before any stage runs; the registry only grows, by the
\* one id of the run that starts; get_workflow_status finds every id created
\* so far and no other id, whatever the interleaving of the runs.
C25_RegistryGrowsOnly ==
    /\ [](/\ active_workflows = Created
          /\ \A w \in WorkflowIds :
                 w \notin active_workflows =>
                     wf[w] = AgentState /\ \A a \in Agents : calls[w][a] = 0
          /\ api.op = "status" => (api.ret <=> api.id \in Created))
    /\ [][/\ active_workflows \subseteq active_workflows'
          /\ \A w \in WorkflowIds :
                 pc[w] = "idle" /\ pc'[w] # "idle" <=>
                     w \in active_workflows' \ active_workflows
          /\ Cardinality(active_workflows' \ active_workflows) <= 1]_vars

\* the status of the first workflow, whose run returned, is asked for and
\* found while the run of the second waits for the LLM
C25_Witness ==
    /\ api = Call("status", 1, "", TRUE)
    /\ pc[1] = "done"
    /\ pc[2] = "llm_wait"
    /\ active_workflows = {1, 2}

\* the rag_quality metrics logged for w, in order
RagMetrics(w) ==
    SelectSeq(metrics[w], LAMBDA m : m.category = "rag_quality")

\* the retrieval stage of w ran to its end
Retrieved(w) == PastRetrieval(w) /\ exc[w] # "retrieval failed"

\* C26: after the retrieval stage one rag_quality metric is logged, worth
\* 1.0 when the retriever reported has_sufficient_context true and 0.0 when
\* it reported false, a context that is not empty included.
C26_MetricIsSufficiency ==
    \A w \in WorkflowIds :
        Retrieved(w) =>
            /\ Len(RagMetrics(w)) = 1
            /\ RagMetrics(w)[1].value =
                   IF wf[w].agent_history[2].detail.has_sufficient_context
                   THEN 1 ELSE 0

\* the monitor stage of w returned without raising
Monitored(w) == pc[w] \notin {"idle", "monitor"} /\ exc[w] # "monitor failed"

\* the no-event branch of lines 632-635 was taken for w
NoEventBranch(w) ==
    /\ wf[w].final_output # <<>>
    /\ wf[w].final_output[1].message = "No risk events detected"

\* what the monitor guarantees: an event on every workflow it returned for
\* (the demo event when the checks found nothing), the no-event branch never
\* taken, one retrieval in every run that got past monitoring
MonitorLeavesEvent ==
    \A w \in WorkflowIds :
        /\ Monitored(w) => wf[w].risk_event # <<>>
        /\ Monitored(w) =>
               wf[w].risk_event \in (DetectedEvents \ {<<>>}) \cup {<<DemoEvent>>}
        /\ ~NoEventBranch(w)
        /\ Returned(w) => save_calls[w] = 1
        /\ Returned(w) /\ Monitored(w) => calls[w]["retrieval"] = 1

\* C27: a monitor that returns leaves a risk event (the demo event when the
\* checks found nothing), the no-event branch is never taken, and every run
\* that got past monitoring ran the retrieval and at least one planning
\* attempt.
C27_MonitoredRunsPlan ==
    /\ MonitorLeavesEvent
    /\ \A w \in WorkflowIds :
           Returned(w) /\ Monitored(w) => calls[w]["planning"] >= 1

\* C27 as the code has it: a monitor that returns leaves a risk event (the
\* demo event when the checks found nothing), the no-event branch is never
\* taken, and every run that got past monitoring ran the retrieval and, when
\* the retrieval did not raise, at least one planning attempt; a run whose
\* retrieval raised made none.
C27_MonitoredRunsPlanUnlessRaised ==
    /\ MonitorLeavesEvent
    /\ \A w \in WorkflowIds :
           Returned(w) /\ Monitored(w) =>
               IF exc[w] = "retrieval failed"
               THEN calls[w]["planning"] = 0
               ELSE calls[w]["planning"] >= 1

\* the checks found nothing, the demo event was injected and the run went on
\* through retrieval and planning to its return
C27_Witness ==
    \E w \in WorkflowIds :
        /\ Returned(w)
        /\ wf[w].risk_event = <<DemoEvent>>
        /\ wf[w].agent_history[1] = Entry("monitor", 1)
        /\ calls[w]["retrieval"] = 1
        /\ calls[w]["planning"] >= 1

\* C28: awaiting_approval is never the status of a workflow another task can
\* read, nor of a workflow whose run returned; every approve_action and
\* reject_action call returns false, and no workflow is ever approved or
\* rejected.
C28_AwaitingApprovalHidden ==
    /\ \A w \in WorkflowIds :
           /\ Observable(w) => wf[w].status # "awaiting_approval"
           /\ Returned(w) => wf[w].status # "awaiting_approval"
           /\ wf[w].status \notin {"approved", "rejected"}
    /\ api.op \in {"approve", "reject"} => ~api.ret

\* the guardrail has set awaiting_approval and the run, which still holds
\* the event loop, is about to notify
C28_Witness ==
    \E w \in WorkflowIds :
        /\ wf[w].status = "awaiting_approval"
        /\ pc[w] = "post_loop"
        /\ cpu = w
        /\ wf[w].current_agent = "guardrail"

\* C29: a returned workflow with status completed has validation_passed true
\* and no validation_errors; its proposed_action is the card of the last
\* planning attempt, breaks no rule of the guardrail, and is the card inside
\* final_output.  The notifier is never entered with a card that failed.
C29_CompletedCardValidated ==
    \A w \in WorkflowIds :
        /\ Returned(w) /\ wf[w].status = "completed" =>
               /\ wf[w].validation_passed
               /\ wf[w].validation_errors = <<>>
               /\ wf[w].proposed_action # <<>>
               /\ wf[w].proposed_action[1].card_id = wf[w].iteration
               /\ wf[w].iteration = calls[w]["planning"]
               /\ calls[w]["guardrail"] = calls[w]["planning"]
               /\ Violations(wf[w].proposed_action[1], wf[w].risk_event) = <<>>
               /\ wf[w].final_output[1].kind = "notification"
               /\ wf[w].final_output[1].action_card = wf[w].proposed_action
        /\ calls[w]["notifier"] > 0 =>
               /\ wf[w].proposed_action # <<>>
               /\ Violations(wf[w].proposed_action[1], wf[w].risk_event) = <<>>

\* a run completed with the card of its third attempt, which cites a source
C29_Witness ==
    \E w \in WorkflowIds :
        /\ Returned(w)
        /\ wf[w].status = "completed"
        /\ wf[w].proposed_action[1].card_id = MaxIterations
        /\ wf[w].proposed_action[1].urgency = "critical"
        /\ wf[w].final_output[1].action_card = wf[w].proposed_action

\* what an action card says, whichever attempt made it
Content(card) == [card EXCEPT !.card_id = 0]

\* the card planning makes for w out of the rule-based fallback
FallbackCard(w) == BuildActionCard(FallbackResponse(wf[w]), wf[w])

\* C30: while the LLM is unavailable every attempt of a run proposes the
\* fallback for the same prompt, so every attempt has the same content and
\* the same violations: a validation passes in the first attempt or in none,
\* and a run whose first validation fails uses all max_iterations attempts
\* and ends failed with the violations of the first attempt.
C30_FallbackRunsRepeat ==
    /\ [](\A w \in WorkflowIds :
            /\ wf[w].proposed_action # <<>> =>
                   Content(wf[w].proposed_action[1]) = Content(FallbackCard(w))
            /\ wf[w].validation_passed => wf[w].iteration = 1
            /\ Exhausted(w) =>
                   /\ wf[w].status = "failed"
                   /\ calls[w]["planning"] = wf[w].max_iterations
                   /\ wf[w].final_output[1].errors =
                          Violations(FallbackCard(w), wf[w].risk_event)
                   /\ wf[w].final_output[1].errors # <<>>)
    /\ [][\A w \in WorkflowIds :
            /\ pc[w] = "llm_wait" /\ pc'[w] = "guardrail"
                 /\ wf[w].proposed_action # <<>> =>
                   Content(wf'[w].proposed_action[1])
                       = Content(wf[w].proposed_action[1])
            /\ pc[w] = "guardrail" /\ pc'[w] # "guardrail"
                 /\ calls[w]["guardrail"] > 0 =>
                   /\ wf'[w].validation_errors = wf[w].validation_errors
                   /\ wf'[w].validation_passed = wf[w].validation_passed]_vars

\* a run on a critical event made the fallback three times and ended failed
\* on its urgency
C30_Witness ==
    \E w \in WorkflowIds :
        /\ Exhausted(w)
        /\ Count(wf[w].agent_history, "planning") = MaxIterations
        /\ wf[w].risk_event[1].severity = "critical"
        /\ wf[w].final_output[1].errors =
               <<"Urgency does not match critical severity">>
====
